---- MODULE Spec2Model ----
(***************************************************************************)
(* Pixareact: the generated-code sanitizer, the brokenness detector, the   *)
(* generateCode and s3-upload route handlers and the in-memory image       *)
(* store.                                                                  *)
(*                                                                         *)
(* A text is a sequence of UTF-16 code units (here: ASCII codes), so that  *)
(* the regular expressions of the source are modelled on the characters    *)
(* they read.  Every regular expression is an operator that returns the    *)
(* end of the match starting at a position (0 when there is none), with    *)
(* the greedy/backtracking choice of the JavaScript engine written out.    *)
(***************************************************************************)
EXTENDS Integers, Sequences, FiniteSets

(***************************************************************************)
(* Characters named by the regular expressions of the source.              *)
(***************************************************************************)
TAB == 9
LF == 10
CR == 13
SP == 32
DQ == 34
SQ == 39
LPAREN == 40
RPAREN == 41
COMMA == 44
COLON == 58
SEMI == 59
EQUALS == 61
GT == 62
QMARK == 63
LBRACKET == 91
BSL == 92
RBRACKET == 93
BT == 96
LBRACE == 123
RBRACE == 125
SOH == 1
VT == 11
FF == 12
LowerA == 97
LowerB == 98
LowerH == 104
LowerN == 110
LowerO == 111

\* \s of a JavaScript regular expression and the characters String.trim()
\* removes, restricted to ASCII
Ws == {TAB, LF, VT, FF, CR, SP}
\* the line terminators at which ^ and $ match under the m flag
LineTerm == {LF, CR}
\* ['"]
Quote == {SQ, DQ}
\* \w
WordChar == (48..57) \cup (65..90) \cup {95} \cup (97..122)
\* [\x00-\x08\x0B\x0C\x0E-\x1F]
Control == (0..8) \cup {VT, FF} \cup (14..31)
\* the closing tokens of isLikelyBroken's line check
ClosersDetect == {RBRACE, RPAREN, RBRACKET, COMMA, SEMI}
\* the closing tokens of the sanitizer: [}\)\];,`]
ClosersSanitize == ClosersDetect \cup {BT}

Max(S) == CHOOSE m \in S : \A k \in S : k <= m

\* s[a..b], empty when b < a
Sub(s, a, b) == IF b < a THEN <<>> ELSE SubSeq(s, a, b)

\* the end of the longest run of \s characters that starts at i (i-1 when
\* s[i] is no whitespace): what a greedy \s* consumes before backtracking
WsRunEnd(s, i) ==
    CHOOSE e \in (i - 1)..Len(s) :
        /\ \A k \in i..e : s[k] \in Ws
        /\ (e = Len(s) \/ s[e + 1] \notin Ws)

\* $ under the m flag, looked at after position k: end of input or a line
\* terminator next
AtLineEnd(s, k) == k = Len(s) \/ s[k + 1] \in LineTerm

\* ^ under the m flag, looked at before position i
AtLineStart(s, i) == i = 1 \/ s[i - 1] \in LineTerm

(***************************************************************************)
(* String.prototype.replace with a g-flagged expression finds its matches  *)
(* left to right in the original string, each search resuming where the    *)
(* previous match ended.  For every rule, <Rule>End(s, i) is the end of    *)
(* the match that starts at i, or 0 when the expression does not match at  *)
(* i, and <Rule>From(s, i) is the rewritten s[i..].                         *)
(***************************************************************************)

\* /(\})(['"])\s*(?=[>\n\r])/ at i: the greedy \s* gives back characters
\* until the lookahead sees >, \n or \r
StrayQuoteAfterBraceEnd(s, i) ==
    IF i + 1 <= Len(s) /\ s[i] = RBRACE /\ s[i + 1] \in Quote
    THEN LET e == WsRunEnd(s, i + 2)
             K == {k \in (i + 1)..e : k + 1 <= Len(s) /\ s[k + 1] \in {GT, LF, CR}}
         IN  IF K = {} THEN 0 ELSE Max(K)
    ELSE 0

\* 1) out.replace(/(\})(['"])\s*(?=[>\n\r])/g, '$1')
RECURSIVE StrayQuoteAfterBraceFrom(_, _)
StrayQuoteAfterBraceFrom(s, i) ==
    IF i > Len(s) THEN <<>>
    ELSE LET e == StrayQuoteAfterBraceEnd(s, i)
         IN  IF e >= i
             THEN <<s[i]>> \o StrayQuoteAfterBraceFrom(s, e + 1)
             ELSE <<s[i]>> \o StrayQuoteAfterBraceFrom(s, i + 1)

\* the first index >= i at which s holds a character of C, 0 when none
FirstIn(s, i, C) ==
    LET P == {p \in i..Len(s) : s[p] \in C}
    IN  IF P = {} THEN 0 ELSE CHOOSE p \in P : \A q \in P : p <= q

\* the end of the longest run of \w characters that starts at i
WordRunEnd(s, i) ==
    CHOOSE e \in (i - 1)..Len(s) :
        /\ \A k \in i..e : s[k] \in WordChar
        /\ (e = Len(s) \/ s[e + 1] \notin WordChar)

\* /(on\w+=\{[^}]*\})['"]/ at i: \w+ takes the whole word run (= is no word
\* character) and [^}]* runs to the first }
HandlerQuoteEnd(s, i) ==
    IF i + 1 <= Len(s) /\ s[i] = LowerO /\ s[i + 1] = LowerN
    THEN LET w == WordRunEnd(s, i + 2)
         IN  IF w >= i + 2 /\ w + 2 <= Len(s) /\ s[w + 1] = EQUALS /\ s[w + 2] = LBRACE
             THEN LET p == FirstIn(s, w + 3, {RBRACE})
                  IN  IF p > 0 /\ p + 1 <= Len(s) /\ s[p + 1] \in Quote
                      THEN p + 1 ELSE 0
             ELSE 0
    ELSE 0

\* 2) out.replace(/(on\w+=\{[^}]*\})['"]/g, (_m, p1) => p1)
RECURSIVE HandlerQuoteFrom(_, _)
HandlerQuoteFrom(s, i) ==
    IF i > Len(s) THEN <<>>
    ELSE LET e == HandlerQuoteEnd(s, i)
         IN  IF e >= i
             THEN Sub(s, i, e - 1) \o HandlerQuoteFrom(s, e + 1)
             ELSE <<s[i]>> \o HandlerQuoteFrom(s, i + 1)

\* /`\s*$/m at i: the greedy \s* gives back characters until $ matches
LoneBacktickEnd(s, i) ==
    IF s[i] = BT
    THEN LET e == WsRunEnd(s, i + 1)
             K == {k \in i..e : AtLineEnd(s, k)}
         IN  IF K = {} THEN 0 ELSE Max(K)
    ELSE 0

\* 3) out.replace(/`\s*$/gm, '')
RECURSIVE LoneBacktickFrom(_, _)
LoneBacktickFrom(s, i) ==
    IF i > Len(s) THEN <<>>
    ELSE LET e == LoneBacktickEnd(s, i)
         IN  IF e >= i
             THEN LoneBacktickFrom(s, e + 1)
             ELSE <<s[i]>> \o LoneBacktickFrom(s, i + 1)

\* /^\s*['"]\s*$/m at i: the first \s* takes the whole whitespace run (line
\* breaks included), the second gives back characters until $ matches
QuoteOnlyLineEnd(s, i) ==
    IF AtLineStart(s, i)
    THEN LET q == WsRunEnd(s, i) + 1
         IN  IF q <= Len(s) /\ s[q] \in Quote
             THEN LET e == WsRunEnd(s, q + 1)
                      K == {k \in q..e : AtLineEnd(s, k)}
                  IN  IF K = {} THEN 0 ELSE Max(K)
             ELSE 0
    ELSE 0

\* 3.1) out.replace(/^\s*['"]\s*$/gm, '')
RECURSIVE QuoteOnlyLineFrom(_, _)
QuoteOnlyLineFrom(s, i) ==
    IF i > Len(s) THEN <<>>
    ELSE LET e == QuoteOnlyLineEnd(s, i)
         IN  IF e >= i
             THEN QuoteOnlyLineFrom(s, e + 1)
             ELSE <<s[i]>> \o QuoteOnlyLineFrom(s, i + 1)

\* /(:\s*)['"]\s*(\r?\n\s*[}\)\];,`])/ at i.  q is the quote, k the last
\* character the greedy \s* after it keeps, n the \n of group 2; the match
\* ends at the closing token.  The result is <<q, k, e>>, or <<0, 0, 0>>.
ColonQuoteMatch(s, i) ==
    IF s[i] = COLON
    THEN LET q == WsRunEnd(s, i + 1) + 1
         IN  IF q <= Len(s) /\ s[q] \in Quote
             THEN LET w == WsRunEnd(s, q + 1)
                      K == {k \in q..w :
                              \E n \in {k + 1, k + 2} :
                                  /\ n <= w
                                  /\ s[n] = LF
                                  /\ (n = k + 2 => s[k + 1] = CR)
                                  /\ w + 1 <= Len(s)
                                  /\ s[w + 1] \in ClosersSanitize}
                  IN  IF K = {} THEN <<0, 0, 0>> ELSE <<q, Max(K), w + 1>>
             ELSE <<0, 0, 0>>
    ELSE <<0, 0, 0>>

\* 3.2) out.replace(/(:\s*)['"]\s*(\r?\n\s*[}\)\];,`])/g, "$1''$2")
RECURSIVE ColonQuoteFrom(_, _)
ColonQuoteFrom(s, i) ==
    IF i > Len(s) THEN <<>>
    ELSE LET m == ColonQuoteMatch(s, i)
         IN  IF m[3] >= i
             THEN Sub(s, i, m[1] - 1) \o <<SQ, SQ>> \o Sub(s, m[2] + 1, m[3])
                      \o ColonQuoteFrom(s, m[3] + 1)
             ELSE <<s[i]>> \o ColonQuoteFrom(s, i + 1)

\* String.prototype.split(/\r?\n/): the text is cut at every \n, and a \r
\* right before the \n belongs to the separator
RECURSIVE SplitLines(_)
SplitLines(s) ==
    LET p == FirstIn(s, 1, {LF})
    IN  IF p = 0 THEN <<s>>
        ELSE LET last == IF p > 1 /\ s[p - 1] = CR THEN p - 2 ELSE p - 1
             IN  <<Sub(s, 1, last)>> \o SplitLines(Sub(s, p + 1, Len(s)))

\* Array.prototype.join('\n')
RECURSIVE JoinLines(_)
JoinLines(lines) ==
    IF Len(lines) = 0 THEN <<>>
    ELSE IF Len(lines) = 1 THEN lines[1]
    ELSE lines[1] \o <<LF>> \o JoinLines(Tail(lines))

\* the index of the last character of the line that is no whitespace, 0
\* when the line is blank (line.trim() === '')
LastNonWs(line) ==
    LET P == {p \in 1..Len(line) : line[p] \notin Ws}
    IN  IF P = {} THEN 0 ELSE Max(P)

\* /['"]\s*$/.test(line), and line.match(/([\s:=,\(\[]*)(['"])\s*$/) whose
\* first group may be empty: the last character that is no whitespace is a
\* quote
EndsInQuote(line) == LastNonWs(line) > 0 /\ line[LastNonWs(line)] \in Quote

\* the first character of the trimmed next non-empty line after line i
\* (next = lines[j].trim() of the while loop), -1 when there is none
NextStart(lines, i) ==
    LET J == {j \in (i + 1)..Len(lines) : LastNonWs(lines[j]) > 0}
    IN  IF J = {} THEN -1
        ELSE LET j == CHOOSE j \in J : \A k \in J : j <= k
             IN  lines[j][FirstIn(lines[j], 1, (0..127) \ Ws)]

\* the quote that ends the line and the whitespace after it are dropped
QuoteDropped(line) == Sub(line, 1, LastNonWs(line) - 1)

\* line.replace(/(['"])\s*$/, "''"): the quote that ends the line and the
\* whitespace after it become two single quotes
QuoteToEmptyString(line) == Sub(line, 1, LastNonWs(line) - 1) \o <<SQ, SQ>>

\* 3.3) the loop over the lines; lines[j] for j > i is read before it is
\* rewritten, so every line is decided on the lines as split
ScanLines(lines) ==
    [i \in 1..Len(lines) |->
        IF EndsInQuote(lines[i]) /\ NextStart(lines, i) \in ClosersSanitize
        THEN QuoteToEmptyString(lines[i])
        ELSE lines[i]]

\* a strip of every character below the space: [\x00-\x1F]
StripBelowSpace(s) == SelectSeq(s, LAMBDA c : c >= SP)

\* 5) out.replace(/[\x00-\x08\x0B\x0C\x0E-\x1F]+/g, '')
StripControl(s) == SelectSeq(s, LAMBDA c : c \notin Control)

\* the text on which the loop over the lines runs: rules 1 to 3.2 applied
\* in the order of the source
BeforeLineScan(src) ==
    LET r1 == StrayQuoteAfterBraceFrom(src, 1)
        r2 == HandlerQuoteFrom(r1, 1)
        r3 == LoneBacktickFrom(r2, 1)
        r31 == QuoteOnlyLineFrom(r3, 1)
    IN  ColonQuoteFrom(r31, 1)

\* the text on which rule 5 runs: out = lines.join('\n') of line 238
BeforeStrip(src) == JoinLines(ScanLines(SplitLines(BeforeLineScan(src))))

\* sanitizeGeneratedCode(src): the rewrites in the order of the source
sanitizeGeneratedCode(src) == StripControl(BeforeStrip(src))

\* the count without the lookbehind: escaped occurrences are counted too
CountEscapedToo(s, c) == Len(SelectSeq(s, LAMBDA x : x = c))

\* (src.match(/(?<!\\)c/g) || []).length: the occurrences of c that no
\* backslash precedes
CountUnescaped(s, c) ==
    Cardinality({i \in 1..Len(s) : s[i] = c /\ (i = 1 \/ s[i - 1] # BSL)})

\* (src.match(/c/g) || []).length
Count(s, c) == Cardinality({i \in 1..Len(s) : s[i] = c})

\* src.replace(/`[\s\S]*?`/g, ''): a backtick and everything up to the next
\* backtick (escaped or not) is removed
RECURSIVE WithoutTemplatesFrom(_, _)
WithoutTemplatesFrom(s, i) ==
    IF i > Len(s) THEN <<>>
    ELSE LET e == IF s[i] = BT THEN FirstIn(s, i + 1, {BT}) ELSE 0
         IN  IF e >= i
             THEN WithoutTemplatesFrom(s, e + 1)
             ELSE <<s[i]>> \o WithoutTemplatesFrom(s, i + 1)

\* the loop over the lines of isLikelyBroken
DanglingQuoteLine(src) ==
    LET lines == SplitLines(src)
    IN  \E i \in 1..Len(lines) :
            EndsInQuote(lines[i]) /\ NextStart(lines, i) \in ClosersDetect

\* the three count comparisons that end isLikelyBroken
BracketsUnbalanced(src) ==
    \/ Count(src, LBRACE) # Count(src, RBRACE)
    \/ Count(src, LPAREN) # Count(src, RPAREN)
    \/ Count(src, LBRACKET) # Count(src, RBRACKET)

\* the two quote counts on the text without its template literals
QuotesOdd(src) ==
    LET withoutTemplates == WithoutTemplatesFrom(src, 1)
    IN  \/ CountUnescaped(withoutTemplates, SQ) % 2 = 1
        \/ CountUnescaped(withoutTemplates, DQ) % 2 = 1

BackticksOdd(src) == CountUnescaped(src, BT) % 2 = 1

\* isLikelyBroken that returns after the line loop, without the bracket
\* counts
BrokenWithoutBrackets(src) ==
    \/ BackticksOdd(src)
    \/ QuotesOdd(src)
    \/ DanglingQuoteLine(src)

isLikelyBroken(src) ==
    \/ BackticksOdd(src)
    \/ QuotesOdd(src)
    \/ DanglingQuoteLine(src)
    \/ BracketsUnbalanced(src)

(***************************************************************************)
(* Bounds of the model, and the values the handlers are run on.            *)
(***************************************************************************)
\* the longest text of the exhaustive input set of the pure functions
MaxLen == 3
\* the number of requests the server handles, in any interleaving
NumReqs == 2

Reqs == 1..NumReqs

\* randomUUID() values: one per request is enough for every upload
Ids == 1..NumReqs

Alphabet == {SQ, DQ, BT, LF, SP, RBRACE, LBRACE, COLON, LowerA, SOH, BSL}

\* every text over Alphabet of length n
TextsOfLen(n) == [1..n -> Alphabet]

\* isActive ? 'on' : '
\* }
TernarySample ==
    <<105, 115, 65, 99, 116, 105, 118, 101, SP, QMARK, SP, SQ, LowerO, LowerN, SQ,
      SP, COLON, SP, SQ, LF, RBRACE>>

\* {a:'b'
\* }
ObjectSample == <<LBRACE, LowerA, COLON, SQ, LowerB, SQ, LF, RBRACE>>

\* {a:`b`
\* }
TemplateSample == <<LBRACE, LowerA, COLON, BT, LowerB, BT, LF, RBRACE>>

\* ona={h}'
HandlerSample == <<LowerO, LowerN, LowerA, EQUALS, LBRACE, LowerH, RBRACE, SQ>>

\* {a}
BalancedSample == <<LBRACE, LowerA, RBRACE>>

\* {a
UnbalancedSample == <<LBRACE, LowerA>>

\* {{{}}
ThreeTwoSample == <<LBRACE, LBRACE, LBRACE, RBRACE, RBRACE>>

\* {a:''
\* }
EmptyStringSample == <<LBRACE, LowerA, COLON, SQ, SQ, LF, RBRACE>>

\* `\`'`  (a template literal that holds an escaped backtick and a quote)
EscapedBacktickSample == <<BT, BSL, BT, SQ, BT>>

\* (a'
\* )
StrayQuoteSample == <<LPAREN, LowerA, SQ, LF, RPAREN>>

\* a<CR><LF>a
CrLfSample == <<LowerA, CR, LF, LowerA>>

\* a<TAB>a<CR><SOH>a<LF>a
WhitespaceSample == <<LowerA, TAB, LowerA, CR, SOH, LowerA, LF, LowerA>>

Samples ==
    {TernarySample, ObjectSample, TemplateSample, HandlerSample, BalancedSample,
     UnbalancedSample, ThreeTwoSample, EmptyStringSample, EscapedBacktickSample,
     WhitespaceSample, CrLfSample, StrayQuoteSample}

\* the inputs of the pure functions
Inputs == UNION {TextsOfLen(n) : n \in 0..MaxLen} \cup Samples

\* the texts the model client answers with
ModelTexts == {<<>>, HandlerSample, StrayQuoteSample}

\* JSON.stringify(response) of a response object without text: {}
EmptyObjectJson == <<LBRACE, RBRACE>>

\* the uploaded files: name, type and bytes
Files ==
    {[name |-> "a.png", type |-> "image/png", bytes |-> "b1"],
     [name |-> "b", type |-> "", bytes |-> "b2"]}

NoFile == [name |-> "", type |-> "", bytes |-> ""]

Undefined == "undefined"

\* the descriptions the model client answers an upload with
Descriptions == {"", "a login form", "[object Object]"}

\* ImageRecord
ImageRecord == [dataUrl : [mime : STRING, base64 : STRING],
                description : Descriptions \cup {Undefined}, name : STRING]

NoRecord == [dataUrl |-> [mime |-> "", base64 |-> ""], description |-> Undefined, name |-> ""]

(***************************************************************************)
(* State.                                                                  *)
(***************************************************************************)
VARIABLES
    geminiKeySet,       \* process.env.GEMINI_API_KEY is set and not empty
    imageDescriptions,  \* the Map of image-store: id -> ImageRecord
    route,              \* the handler each request runs: upload or generate
    pc,                 \* where each handler invocation is suspended
    loc,                \* the locals a handler keeps across an await
    resp,               \* the Response each request returned
    calls,              \* the generateContent calls each request has issued
    hist,               \* what the model client answered in each request
    src,                \* the input of the pure functions
    out,                \* sanitizeGeneratedCode(src)
    out2,               \* sanitizeGeneratedCode(out)
    verdict,            \* isLikelyBroken of src and of out
    step,               \* how far the pure functions have been applied
    status,             \* the client's status state
    imageUrl,           \* the client's imageUrl state
    imageDescription,   \* the client's imageDescription state
    generatedCode,      \* the client's generatedCode state: the chunks appended
    uploads,            \* calls of handleFileChange waiting for the upload
    timers,             \* callbacks passed to setTimeout that have not run
    fetches,            \* calls of createApp waiting for the response or its body
    counters,           \* how many images were selected, clicks made, requests sent
    failed              \* the last step was a call of createApp that threw

vars ==
    <<geminiKeySet, imageDescriptions, route, pc, loc, resp, calls, hist,
      src, out, out2, verdict, step,
      status, imageUrl, imageDescription, generatedCode, uploads, timers, fetches,
      counters, failed>>

serverVars == <<geminiKeySet, imageDescriptions, route, pc, loc, resp, calls, hist>>

textVars == <<src, out, out2, verdict, step>>

clientVars ==
    <<status, imageUrl, imageDescription, generatedCode, uploads, timers, fetches,
      counters, failed>>

NoLoc ==
    [file |-> NoFile, imageId |-> 0, stored |-> NoRecord, description |-> Undefined,
     sanitized |-> <<>>]

NoJson == [url |-> [mime |-> "", base64 |-> ""], name |-> "", imageId |-> 0,
           description |-> Undefined]

NoResp == [status |-> 0, error |-> "", body |-> <<>>, json |-> NoJson]

NoCalls == [describe |-> 0, generate |-> 0, repair |-> 0]

NoHist ==
    [generate |-> "none", first |-> <<>>, repair |-> "none", repaired |-> <<>>,
     record |-> NoRecord, describe |-> "none"]

\* what a generateContent call ends with: an exception, a response object
\* that carries no text, or a response whose text is t
ModelOutcomes ==
    {[kind |-> "throw", text |-> <<>>], [kind |-> "notext", text |-> <<>>]}
        \cup {[kind |-> "text", text |-> t] : t \in ModelTexts}

\* new Response(message, { status })
ErrorResponse(code, message) ==
    [status |-> code, error |-> message, body |-> <<>>, json |-> NoJson]

\* new Response(stream, ...) of generateCode: status 200, the text as body
TextResponse(text) == [status |-> 200, error |-> "", body |-> text, json |-> NoJson]

\* new Response(JSON.stringify({ url, name, imageId, description }), ...)
JsonResponse(url, name, id, description) ==
    [status |-> 200, error |-> "", body |-> <<>>,
     json |-> [url |-> url, name |-> name, imageId |-> id, description |-> description]]

ServerInit ==
    /\ geminiKeySet \in BOOLEAN
    /\ imageDescriptions = <<>>
    /\ route = [r \in Reqs |-> "none"]
    /\ pc = [r \in Reqs |-> "idle"]
    /\ loc = [r \in Reqs |-> NoLoc]
    /\ resp = [r \in Reqs |-> NoResp]
    /\ calls = [r \in Reqs |-> NoCalls]
    /\ hist = [r \in Reqs |-> NoHist]

\* the request r ends with the response rs
Respond(r, rs) ==
    /\ pc' = [pc EXCEPT ![r] = "done"]
    /\ resp' = [resp EXCEPT ![r] = rs]
    /\ loc' = [loc EXCEPT ![r] = NoLoc]

(***************************************************************************)
(* POST /api/s3-upload                                                     *)
(***************************************************************************)

\* `data:${mime};base64,${base64}` with mime = file.type || 'application/octet-stream'
DataUrl(file) ==
    [mime |-> IF file.type = "" THEN "application/octet-stream" ELSE file.type,
     base64 |-> file.bytes]

\* randomUUID with a generator that repeats itself
RepeatingUUID(used) == 1

\* randomUUID(): an identifier that no earlier call returned.  Identifiers
\* are opaque and only compared for equality, so which of the unused ones
\* is drawn makes no difference: the least one stands for all of them.
randomUUID(used) == CHOOSE id \in Ids \ used : \A k \in Ids \ used : id <= k

\* imageDescriptions.set(id, record)
MapSet(map, id, record) ==
    [k \in DOMAIN map \cup {id} |-> IF k = id THEN record ELSE map[k]]

\* imageDescriptions.get(id): the record, or undefined (NoRecord)
MapGet(map, id) == IF id \in DOMAIN map THEN map[id] ELSE NoRecord

\* geminiText where the catch of lines 40-42 sets it to the empty string
GeminiTextEmptyOnThrow(o) ==
    CASE o.kind = "throw" -> ""
      [] o.kind = "notext" -> "[object Object]"
      [] OTHER -> o.text

\* geminiText of the upload handler: String(r?.text ?? ... ?? r), undefined
\* when the call threw
GeminiText(o) ==
    CASE o.kind = "throw" -> Undefined
      [] o.kind = "notext" -> "[object Object]"
      [] OTHER -> o.text

\* what the description call ends with
DescribeOutcomes ==
    {[kind |-> "throw", text |-> ""], [kind |-> "text", text |-> ""],
     [kind |-> "text", text |-> "a login form"]}

\* lines 45-57: the record is stored under a new id and the response sent;
\* described says how the description call ended, "none" when none was made
StoreAndRespond(r, file, geminiText, described) ==
    LET id == randomUUID(DOMAIN imageDescriptions)
    IN  LET record == [dataUrl |-> DataUrl(file), description |-> geminiText,
                       name |-> file.name]
        IN  /\ imageDescriptions' = MapSet(imageDescriptions, id, record)
            /\ hist' = [hist EXCEPT ![r].record = record, ![r].describe = described]
            /\ Respond(r, JsonResponse(DataUrl(file), file.name, id, geminiText))

\* the upload handler from its start to its first await of the model client
\* (or to its response): multipart is the content-type test, formOk whether
\* req.formData() resolves, file the "file" field, readOk whether
\* file.arrayBuffer() resolves
UploadStart(r) ==
    /\ pc[r] = "idle"
    /\ route' = [route EXCEPT ![r] = "upload"]
    /\ \E multipart \in BOOLEAN, formOk \in BOOLEAN, file \in Files \cup {NoFile},
          readOk \in BOOLEAN :
        IF ~multipart
        THEN /\ Respond(r, ErrorResponse(400, "Expected multipart/form-data"))
             /\ UNCHANGED <<imageDescriptions, calls, hist>>
        ELSE IF ~formOk
        THEN \* req.formData() rejects outside the try: the framework answers 500
             /\ Respond(r, ErrorResponse(500, "Internal Server Error"))
             /\ UNCHANGED <<imageDescriptions, calls, hist>>
        ELSE IF file = NoFile
        THEN /\ Respond(r, ErrorResponse(400, "No file provided"))
             /\ UNCHANGED <<imageDescriptions, calls, hist>>
        ELSE IF ~readOk
        THEN /\ Respond(r, ErrorResponse(500, "Failed to process file"))
             /\ UNCHANGED <<imageDescriptions, calls, hist>>
        ELSE IF geminiKeySet
        THEN /\ calls' = [calls EXCEPT ![r].describe = @ + 1]
             /\ pc' = [pc EXCEPT ![r] = "describing"]
             /\ loc' = [loc EXCEPT ![r].file = file]
             /\ UNCHANGED <<imageDescriptions, resp, hist>>
        ELSE /\ StoreAndRespond(r, file, Undefined, "none")
             /\ UNCHANGED calls
    /\ UNCHANGED <<geminiKeySet, textVars, clientVars>>

\* the description call returns or throws (lines 37-42), then lines 45-57
UploadDescribed(r) ==
    /\ pc[r] = "describing"
    /\ \E o \in DescribeOutcomes :
        StoreAndRespond(r, loc[r].file, GeminiText(o), o.kind)
    /\ UNCHANGED <<geminiKeySet, route, calls, textVars, clientVars>>

(***************************************************************************)
(* POST /api/generateCode                                                  *)
(***************************************************************************)

\* a ?? b on descriptions
Coalesce(a, b) == IF a # Undefined THEN a ELSE b

\* the handler without the test of line 84
KeyNeverMissing == FALSE

\* if (!key) of line 84
KeyMissing == ~geminiKeySet

\* a catch that swallows the error and answers with an empty text
GenerateFailureSwallowed(err) == TextResponse(<<>>)

\* the catch of line 176: new Response(String(err), { status: 500 })
GenerateFailure(err) == ErrorResponse(500, err)

\* line 146: response?.text ?? ... ?? JSON.stringify(response)
ResponseText(o) == IF o.kind = "text" THEN o.text ELSE EmptyObjectJson

\* a handler that asks for a repair whatever the detector says
AlwaysRepair(sanitized) == TRUE

\* the test of line 154
NeedsRepair(sanitized) == isLikelyBroken(sanitized)

\* lines 155-162 without the test of line 157: String(null) is sanitized
\* and returned when the repair call gave no text
RepairedUnguarded(sanitized, o) ==
    IF o.kind = "text" /\ o.text # <<>>
    THEN sanitizeGeneratedCode(o.text)
    ELSE IF o.kind = "throw" THEN sanitized
    ELSE sanitizeGeneratedCode(<<110, 117, 108, 108>>)

\* lines 155-162 without the second sanitizeGeneratedCode of line 158
RepairedRaw(sanitized, o) ==
    IF o.kind = "text" /\ o.text # <<>> THEN o.text ELSE sanitized

\* the value of `sanitized` after lines 155-162, when the repair call ended
\* with o: repairWithModel returns null for a response without text or with
\* an empty text, and its exception is caught
Repaired(sanitized, o) ==
    IF o.kind = "text" /\ o.text # <<>>
    THEN sanitizeGeneratedCode(o.text)
    ELSE sanitized

\* line 154 as a while: the repair is asked for again as long as the text
\* is flagged
RepairWhileBroken(sanitized) == isLikelyBroken(sanitized)

\* line 154 is an if, not a loop: after the repair attempt the handler goes
\* on to the response, whatever the repaired text is
RepairAgain(sanitized) == FALSE

\* the handler from its start to the generation call (or to its response):
\* jsonOk is whether req.json() resolves, imageId and
\* clientImageDescription are fields of the body (0: no imageId)
GenerateStart(r) ==
    /\ pc[r] = "idle"
    /\ route' = [route EXCEPT ![r] = "generate"]
    /\ \E jsonOk \in BOOLEAN, imageId \in Ids \cup {0},
          clientImageDescription \in {Undefined, "a login form"} :
        IF ~jsonOk
        THEN /\ Respond(r, GenerateFailure("SyntaxError"))
             /\ UNCHANGED calls
        ELSE IF KeyMissing
        THEN /\ Respond(r, ErrorResponse(500, "GEMINI_API_KEY not set"))
             /\ UNCHANGED calls
        ELSE LET stored == IF imageId # 0 THEN MapGet(imageDescriptions, imageId)
                           ELSE NoRecord
                 descriptionToUse == Coalesce(stored.description, clientImageDescription)
             IN  /\ calls' = [calls EXCEPT ![r].generate = @ + 1]
                 /\ pc' = [pc EXCEPT ![r] = "generating"]
                 /\ loc' = [loc EXCEPT ![r].imageId = imageId, ![r].stored = stored,
                                       ![r].description = descriptionToUse]
                 /\ UNCHANGED resp
    /\ UNCHANGED <<geminiKeySet, imageDescriptions, hist, textVars, clientVars>>

\* the generation call returns or throws: lines 139-154, then either the
\* repair call is issued or the response is sent (lines 165-175)
GenerateReturned(r) ==
    /\ pc[r] = "generating"
    /\ \E o \in ModelOutcomes :
        IF o.kind = "throw"
        THEN /\ hist' = [hist EXCEPT ![r].generate = "throw"]
             /\ Respond(r, GenerateFailure("generateContent failed"))
             /\ UNCHANGED calls
        ELSE LET sanitized == sanitizeGeneratedCode(ResponseText(o))
             IN  /\ hist' = [hist EXCEPT ![r].generate = "ok", ![r].first = sanitized]
                 /\ IF NeedsRepair(sanitized)
                    THEN /\ calls' = [calls EXCEPT ![r].repair = @ + 1]
                         /\ pc' = [pc EXCEPT ![r] = "repairing"]
                         /\ loc' = [loc EXCEPT ![r].sanitized = sanitized]
                         /\ UNCHANGED resp
                    ELSE /\ Respond(r, TextResponse(sanitized))
                         /\ UNCHANGED calls
    /\ UNCHANGED <<geminiKeySet, imageDescriptions, route, textVars, clientVars>>

\* the repair call returns or throws: lines 156-175
RepairReturned(r) ==
    /\ pc[r] = "repairing"
    /\ \E o \in ModelOutcomes :
        LET sanitized == Repaired(loc[r].sanitized, o)
        IN  /\ hist' = [hist EXCEPT
                    ![r].repair = IF o.kind = "throw" THEN "throw"
                                  ELSE IF o.kind = "text" /\ o.text # <<>> THEN "text"
                                  ELSE "null",
                    ![r].repaired = o.text]
            /\ IF RepairAgain(sanitized)
               THEN /\ calls' = [calls EXCEPT ![r].repair = @ + 1]
                    /\ loc' = [loc EXCEPT ![r].sanitized = sanitized]
                    /\ UNCHANGED <<pc, resp>>
               ELSE /\ Respond(r, TextResponse(sanitized))
                    /\ UNCHANGED calls
    /\ UNCHANGED <<geminiKeySet, imageDescriptions, route, textVars, clientVars>>

(***************************************************************************)
(* The pure functions on their own: sanitizeGeneratedCode applied to an    *)
(* input, applied again to its result, and isLikelyBroken run on both.     *)
(***************************************************************************)
TextInit ==
    /\ src = <<>>
    /\ out = <<>>
    /\ out2 = <<>>
    /\ verdict = [src |-> FALSE, out |-> FALSE]
    /\ step = "idle"

ChooseInput ==
    /\ step = "idle"
    /\ src' \in Inputs
    /\ step' = "input"
    /\ UNCHANGED <<out, out2, verdict, serverVars, clientVars>>

Sanitize ==
    /\ step = "input"
    /\ out' = sanitizeGeneratedCode(src)
    /\ step' = "sanitized"
    /\ UNCHANGED <<src, out2, verdict, serverVars, clientVars>>

SanitizeAgain ==
    /\ step = "sanitized"
    /\ out2' = sanitizeGeneratedCode(out)
    /\ step' = "resanitized"
    /\ UNCHANGED <<src, out, verdict, serverVars, clientVars>>

Detect ==
    /\ step = "resanitized"
    /\ verdict' = [src |-> isLikelyBroken(src), out |-> isLikelyBroken(out)]
    /\ step' = "detected"
    /\ UNCHANGED <<src, out, out2, serverVars, clientVars>>

(***************************************************************************)
(* Specifications.                                                         *)
(***************************************************************************)
(***************************************************************************)
(* The client component of src/app/page.tsx.  An event handler runs in    *)
(* the render in which it was created: what it and its continuations read   *)
(* of imageUrl and imageDescription are the values of that render, kept     *)
(* here with each pending call as closureUrl and closureDescription.        *)
(***************************************************************************)

\* how many images the user selects (files chosen and sample clicks)
MaxImages == 2

\* how many times the user clicks Generate
MaxClicks == 1

\* how many chunks readStream yields for one response body
ChunksPerBody == 2

\* samplePath of handleSampleImage
SamplePath == "/booking.png"

\* data.url of the n-th upload: the data URL of the file
UploadUrl(n) == IF n = 1 THEN "data:image/png;base64,AAAA"
                ELSE IF n = 2 THEN "data:image/png;base64,BBBB"
                ELSE "data:image/png;base64,CCCC"

\* data.description of an upload response: geminiText, which is undefined
\* (the key is left out of the JSON) when the server has no credential or its
\* description call failed, and a string, possibly empty, otherwise
ResponseDescriptions == {Undefined, "", "a login form"}

\* a value is truthy in {imageUrl ? ... : ...}
Truthy(url) == url \notin {Undefined, ""}

\* disabled of the Generate button
GenerateDisabled == status \in {"initial", "uploading", "creating"}

ClientInit ==
    /\ status = "initial"
    /\ imageUrl = Undefined
    /\ imageDescription = Undefined
    /\ generatedCode = <<>>
    /\ uploads = {}
    /\ timers = <<>>
    /\ fetches = {}
    /\ counters = [images |-> 0, clicks |-> 0, requests |-> 0]
    /\ failed = FALSE

\* createApp up to its fetch, called with the two overrides in a render
\* whose state is closureUrl, closureDescription; image is what the caller
\* selected (auto-started calls only)
createApp(overrideImageUrl, overrideImageDescription, closureUrl, closureDescription, auto, image) ==
    /\ status' = "creating"
    /\ generatedCode' = <<>>
    /\ fetches' = fetches \cup
            {[id |-> counters.requests + 1,
              imageUrl |-> Coalesce(overrideImageUrl, closureUrl),
              imageDescription |->
                  Coalesce(overrideImageDescription, closureDescription),
              auto |-> auto,
              image |-> image,
              phase |-> "fetch",
              got |-> 0]}
    /\ failed' = FALSE

\* handleFileChange up to its fetch: the FileUploader is rendered only while
\* imageUrl is falsy
FileChosen ==
    /\ ~Truthy(imageUrl)
    /\ counters.images < MaxImages
    /\ status' = "uploading"
    /\ uploads' = uploads \cup
            {[id |-> counters.images + 1,
              closureUrl |-> imageUrl,
              closureDescription |-> imageDescription]}
    /\ counters' = [counters EXCEPT !.images = @ + 1]
    /\ failed' = FALSE
    /\ UNCHANGED <<imageUrl, imageDescription, generatedCode, timers, fetches>>

\* the upload fetch settles: it rejects, answers with a status that is not
\* ok, or answers with url and description
UploadResponded(u) ==
    /\ u \in uploads
    /\ uploads' = uploads \ {u}
    /\ failed' = FALSE
    /\ \E outcome \in {"rejected", "notok", "ok"} :
        CASE outcome = "rejected" ->
                UNCHANGED <<status, imageUrl, imageDescription, timers>>
          [] outcome = "notok" ->
                /\ status' = "initial"
                /\ UNCHANGED <<imageUrl, imageDescription, timers>>
          [] outcome = "ok" ->
                \E description \in ResponseDescriptions :
                    /\ imageUrl' = UploadUrl(u.id)
                    /\ imageDescription' = description
                    /\ status' = "uploaded"
                    /\ timers' = Append(timers,
                            [url |-> UploadUrl(u.id),
                             description |-> description,
                             closureUrl |-> u.closureUrl,
                             closureDescription |-> u.closureDescription,
                             image |-> [url |-> UploadUrl(u.id),
                                        description |-> description]])
    /\ UNCHANGED <<generatedCode, fetches, counters>>

\* handleSampleImage: the button is rendered only while imageUrl is falsy
SampleClicked ==
    /\ ~Truthy(imageUrl)
    /\ counters.images < MaxImages
    /\ imageUrl' = SamplePath
    /\ status' = "uploaded"
    /\ timers' = Append(timers,
            [url |-> SamplePath,
             description |-> Undefined,
             closureUrl |-> imageUrl,
             closureDescription |-> imageDescription,
             image |-> [url |-> SamplePath, description |-> Undefined]])
    /\ counters' = [counters EXCEPT !.images = @ + 1]
    /\ failed' = FALSE
    /\ UNCHANGED <<imageDescription, generatedCode, uploads, fetches>>

\* the callback of the oldest setTimeout(..., 50) runs
TimerFired ==
    /\ timers # <<>>
    /\ LET t == Head(timers)
       IN  createApp(t.url, t.description, t.closureUrl, t.closureDescription,
                     TRUE, t.image)
    /\ timers' = Tail(timers)
    /\ counters' = [counters EXCEPT !.requests = @ + 1]
    /\ UNCHANGED <<imageUrl, imageDescription, uploads>>

\* onClick={() => createApp()} of the Generate button
GenerateClicked ==
    /\ ~GenerateDisabled
    /\ counters.clicks < MaxClicks
    /\ createApp(Undefined, Undefined, imageUrl, imageDescription, FALSE,
                 [url |-> imageUrl, description |-> imageDescription])
    /\ counters' = [counters EXCEPT !.requests = @ + 1, !.clicks = @ + 1]
    /\ UNCHANGED <<imageUrl, imageDescription, uploads, timers>>

\* onClick={() => setImageUrl('')} of the remove-image button, rendered only
\* while imageUrl is truthy
RemoveImageClicked ==
    /\ Truthy(imageUrl)
    /\ imageUrl' = ""
    /\ failed' = FALSE
    /\ UNCHANGED <<status, imageDescription, generatedCode, uploads, timers,
                   fetches, counters>>

\* the fetch of createApp settles: it rejects, the response is not ok, it has
\* no body, or its body starts to be read; in the first three createApp
\* throws and sets no state
GenerateResponded(q) ==
    /\ q \in fetches
    /\ q.phase = "fetch"
    /\ \E outcome \in {"rejected", "notok", "nobody", "ok"} :
        IF outcome = "ok"
        THEN /\ fetches' = (fetches \ {q}) \cup {[q EXCEPT !.phase = "stream"]}
             /\ failed' = FALSE
        ELSE /\ fetches' = fetches \ {q}
             /\ failed' = TRUE
    /\ UNCHANGED <<status, imageUrl, imageDescription, generatedCode, uploads,
                   timers, counters>>

\* one turn of the for await loop: setGeneratedCode((prev) => prev + chunk);
\* a chunk is written as the request it belongs to and its position
ChunkArrived(q) ==
    /\ q \in fetches
    /\ q.phase = "stream"
    /\ q.got < ChunksPerBody
    /\ generatedCode' = Append(generatedCode, <<q.id, q.got + 1>>)
    /\ fetches' = (fetches \ {q}) \cup {[q EXCEPT !.got = @ + 1]}
    /\ failed' = FALSE
    /\ UNCHANGED <<status, imageUrl, imageDescription, uploads, timers, counters>>

\* the loop ends: setStatus('created')
StreamEnded(q) ==
    /\ q \in fetches
    /\ q.phase = "stream"
    /\ q.got = ChunksPerBody
    /\ status' = "created"
    /\ fetches' = fetches \ {q}
    /\ failed' = FALSE
    /\ UNCHANGED <<imageUrl, imageDescription, generatedCode, uploads, timers,
                   counters>>

Init == ServerInit /\ TextInit /\ ClientInit

Next ==
    \E r \in Reqs :
        \/ UploadStart(r)
        \/ UploadDescribed(r)
        \/ GenerateStart(r)
        \/ GenerateReturned(r)
        \/ RepairReturned(r)

\* the two route handlers, any number of requests interleaved
Spec == Init /\ [][Next]_vars

TextSpecInit ==
    /\ ServerInit
    /\ geminiKeySet
    /\ TextInit
    /\ ClientInit

TextNext == ChooseInput \/ Sanitize \/ SanitizeAgain \/ Detect

\* the sanitizer and the detector on every input
TextSpec == TextSpecInit /\ [][TextNext]_vars

\* what the user does
UserNext ==
    \/ FileChosen
    \/ SampleClicked
    \/ GenerateClicked
    \/ RemoveImageClicked

\* what happens without the user: responses, timers, chunks
ClientProgress ==
    \/ TimerFired
    \/ \E u \in uploads : UploadResponded(u)
    \/ \E q \in fetches :
        \/ GenerateResponded(q)
        \/ ChunkArrived(q)
        \/ StreamEnded(q)

ClientNext ==
    /\ UserNext \/ ClientProgress
    /\ UNCHANGED <<serverVars, textVars>>

\* the client under every interleaving of what the user does with the
\* responses, the timers and the chunks
ClientSpec == TextSpecInit /\ [][ClientNext]_vars

\* the same, where a pending response, timer or chunk is not delayed for
\* ever; the user is free to do nothing
ClientFairSpec ==
    ClientSpec /\ WF_vars(ClientProgress /\ UNCHANGED <<serverVars, textVars>>)

(***************************************************************************)
(* Properties of the generateCode handler.                                 *)
(***************************************************************************)
GenerateDone(r) == route[r] = "generate" /\ pc[r] = "done"

UploadOk(r) == route[r] = "upload" /\ pc[r] = "done" /\ resp[r].status = 200

\* C1: whatever the model returns, a generation request issues at most one
\* repair call to the model client.
RepairAtMostOnce == \A r \in Reqs : calls[r].repair <= 1

\* a request whose repaired text is still flagged has answered after its
\* single repair call
RepairStillBrokenAnswered ==
    \E r \in Reqs :
        /\ GenerateDone(r)
        /\ hist[r].repair = "text"
        /\ isLikelyBroken(resp[r].body)
        /\ calls[r].repair = 1

\* C2: when the sanitized text is flagged and the repair call throws or
\* gives no usable text, the request succeeds with the pre-repair sanitized
\* text as its body.
RepairFallback ==
    \A r \in Reqs :
        (/\ GenerateDone(r)
         /\ hist[r].generate = "ok"
         /\ isLikelyBroken(hist[r].first)
         /\ hist[r].repair \in {"throw", "null"})
            => resp[r] = TextResponse(hist[r].first)

\* one request whose repair call threw and one whose repair call gave no
\* text, both answered
RepairFailedBothWays ==
    \E r1, r2 \in Reqs :
        /\ GenerateDone(r1) /\ hist[r1].repair = "throw"
        /\ GenerateDone(r2) /\ hist[r2].repair = "null"
        /\ resp[r1].body = hist[r1].first /\ hist[r1].first # <<>>
        /\ resp[r2].status = 200

\* C3: when the detector accepts the sanitized generated text, no repair
\* call is made and the response body is that text.
NoRepairWhenNotBroken ==
    \A r \in Reqs :
        (/\ route[r] = "generate"
         /\ hist[r].generate = "ok"
         /\ ~isLikelyBroken(hist[r].first))
            => /\ calls[r].repair = 0
               /\ pc[r] = "done"
               /\ resp[r] = TextResponse(hist[r].first)

\* a generated text that the sanitizer changed and the detector accepted
\* was answered without a repair call
AcceptedTextAnswered ==
    \E r \in Reqs :
        /\ GenerateDone(r)
        /\ hist[r].generate = "ok"
        /\ hist[r].first # <<>>
        /\ hist[r].first \notin ModelTexts
        /\ ~isLikelyBroken(hist[r].first)
        /\ calls[r].repair = 0

\* C4: when the repair call returns a non-empty text, the response body is
\* that text sanitized, returned after the one repair call even when the
\* detector would flag it.
RepairedSanitizedOnce ==
    \A r \in Reqs :
        (GenerateDone(r) /\ hist[r].repair = "text")
            => /\ resp[r] = TextResponse(sanitizeGeneratedCode(hist[r].repaired))
               /\ calls[r].repair = 1

\* a repaired text that the sanitizer rewrote and that is still flagged is
\* the body of the response
RepairedFlaggedReturned ==
    \E r \in Reqs :
        /\ GenerateDone(r)
        /\ hist[r].repair = "text"
        /\ sanitizeGeneratedCode(hist[r].repaired) # hist[r].repaired
        /\ isLikelyBroken(sanitizeGeneratedCode(hist[r].repaired))
        /\ resp[r].body = sanitizeGeneratedCode(hist[r].repaired)

\* C8: without GEMINI_API_KEY a generation request ends with status 500 and
\* an error message, and issues no call to the model client.
NoKeyNoModelCall ==
    ~geminiKeySet =>
        \A r \in Reqs :
            route[r] = "generate"
                => /\ calls[r] = NoCalls
                   /\ pc[r] = "done"
                   /\ resp[r].status = 500
                   /\ resp[r].error \in {"GEMINI_API_KEY not set", "SyntaxError"}

\* a generation request refused for the missing key
RefusedForMissingKey ==
    /\ ~geminiKeySet
    /\ \E r \in Reqs :
        /\ GenerateDone(r)
        /\ resp[r] = ErrorResponse(500, "GEMINI_API_KEY not set")
        /\ calls[r].generate = 0

\* C9: when the generation call fails, the request ends with a non-2xx
\* response that carries the error; the generation call is made once and
\* no repair call is made.
GenerationFailureSurfaces ==
    \A r \in Reqs :
        /\ calls[r].generate <= 1
        /\ hist[r].generate = "throw"
            => /\ pc[r] = "done"
               /\ resp[r].status >= 300
               /\ resp[r].error = "generateContent failed"
               /\ calls[r].generate = 1
               /\ calls[r].repair = 0

\* a request whose generation call threw has answered 500
GenerationFailedAnswered ==
    \E r \in Reqs :
        /\ GenerateDone(r)
        /\ hist[r].generate = "throw"
        /\ resp[r].status = 500
        /\ calls[r].generate = 1

(***************************************************************************)
(* Properties of the image store.                                          *)
(***************************************************************************)

\* C10: in every step, the records of the store stay as they are, an upload
\* that answers has put its record under an identifier that was not in the
\* store, and a generation request that looks up the identifier of an
\* answered upload gets the record that upload inserted.
StoreInsertOnly ==
    [][/\ \A id \in DOMAIN imageDescriptions :
            /\ id \in DOMAIN imageDescriptions'
            /\ imageDescriptions'[id] = imageDescriptions[id]
       /\ \A u \in Reqs :
            (pc[u] # "done" /\ pc'[u] = "done" /\ route'[u] = "upload"
                /\ resp'[u].status = 200)
                => /\ resp'[u].json.imageId \notin DOMAIN imageDescriptions
                   /\ resp'[u].json.imageId \in DOMAIN imageDescriptions'
                   /\ imageDescriptions'[resp'[u].json.imageId] = hist'[u].record
                   /\ hist'[u].record.name = resp'[u].json.name
                   /\ hist'[u].record.dataUrl = resp'[u].json.url
       /\ \A g, u \in Reqs :
            (/\ pc[g] = "idle" /\ pc'[g] = "generating"
             /\ UploadOk(u)
             /\ loc'[g].imageId = resp[u].json.imageId)
                => loc'[g].stored = hist[u].record]_vars

\* two uploads have answered, each record is in the store under its own
\* identifier, and the records differ
TwoUploadsStored ==
    \E u1, u2 \in Reqs :
        /\ UploadOk(u1) /\ UploadOk(u2)
        /\ resp[u1].json.imageId # resp[u2].json.imageId
        /\ hist[u1].record # hist[u2].record
        /\ imageDescriptions[resp[u1].json.imageId] = hist[u1].record
        /\ imageDescriptions[resp[u2].json.imageId] = hist[u2].record

\* the bodies of the failures of the upload handler: the two rejections
\* (400), the failure of file processing and that of req.formData() (500)
UploadFailures ==
    {"Expected multipart/form-data", "No file provided", "Failed to process file",
     "Internal Server Error"}

\* the upload request u answers in this step
UploadAnswers(u) == pc[u] # "done" /\ pc'[u] = "done" /\ route'[u] = "upload"

\* C22: in the upload handler a failed description call, or an absent
\* credential, does not fail the upload: the record is inserted under a
\* fresh identifier with no description and the response is a success that
\* carries url, name and imageId; the store is left unchanged only when the
\* upload is rejected (400) or file processing fails (500).
DescriptionFailureKeepsUpload ==
    [][\A u \in Reqs :
        UploadAnswers(u)
            => /\ \/ resp'[u].status = 200
                  \/ /\ resp'[u].status \in {400, 500}
                     /\ resp'[u].error \in UploadFailures
               /\ pc[u] = "describing" => resp'[u].status = 200
               /\ (resp'[u].status = 200 /\ (hist'[u].describe = "throw" \/ ~geminiKeySet))
                    => /\ resp'[u].json.imageId \notin DOMAIN imageDescriptions
                       /\ resp'[u].json.imageId \in DOMAIN imageDescriptions'
                       /\ imageDescriptions'[resp'[u].json.imageId].description
                            = Undefined
                       /\ imageDescriptions'[resp'[u].json.imageId].dataUrl
                            = resp'[u].json.url
                       /\ imageDescriptions'[resp'[u].json.imageId].name
                            = resp'[u].json.name
                       /\ resp'[u].json.name # ""
               /\ (imageDescriptions' = imageDescriptions)
                    <=> resp'[u].status \in {400, 500}]_vars

\* an upload whose description call threw has answered with a success and
\* its record, without description, is in the store
UndescribedUploadStored ==
    \E u \in Reqs :
        /\ UploadOk(u)
        /\ hist[u].describe = "throw"
        /\ calls[u].describe = 1
        /\ MapGet(imageDescriptions, resp[u].json.imageId).description = Undefined
        /\ MapGet(imageDescriptions, resp[u].json.imageId).name = resp[u].json.name
        /\ resp[u].json.url = MapGet(imageDescriptions, resp[u].json.imageId).dataUrl

(***************************************************************************)
(* Properties of the sanitizer and the detector.                           *)
(***************************************************************************)
Openers == {LBRACE, LPAREN, LBRACKET}

CloserOf(c) == CASE c = LBRACE -> RBRACE [] c = LPAREN -> RPAREN [] OTHER -> RBRACKET

\* A text is well formed when a scan from s[i] on, in `mode` (code, or
\* inside a single-quoted, double-quoted or template literal) and with the
\* closers `stack` still owed, ends in code with nothing owed: every
\* literal is terminated (a quoted string on its own line), every bracket
\* closes the last one opened, and there is no control character and no
\* backslash outside a literal.
RECURSIVE WellFormedFrom(_, _, _, _)
WellFormedFrom(s, i, mode, stack) ==
    IF i > Len(s) THEN mode = "code" /\ stack = <<>>
    ELSE IF s[i] \in Control THEN FALSE
    ELSE IF mode = "code"
    THEN CASE s[i] = SQ -> WellFormedFrom(s, i + 1, "single", stack)
           [] s[i] = DQ -> WellFormedFrom(s, i + 1, "double", stack)
           [] s[i] = BT -> WellFormedFrom(s, i + 1, "template", stack)
           [] s[i] = BSL -> FALSE
           [] s[i] \in Openers ->
                WellFormedFrom(s, i + 1, mode, <<CloserOf(s[i])>> \o stack)
           [] s[i] \in {RBRACE, RPAREN, RBRACKET} ->
                /\ stack # <<>>
                /\ Head(stack) = s[i]
                /\ WellFormedFrom(s, i + 1, mode, Tail(stack))
           [] OTHER -> WellFormedFrom(s, i + 1, mode, stack)
    ELSE IF s[i] = BSL THEN i + 1 <= Len(s) /\ WellFormedFrom(s, i + 2, mode, stack)
    ELSE IF mode = "template"
    THEN WellFormedFrom(s, i + 1, IF s[i] = BT THEN "code" ELSE mode, stack)
    ELSE IF s[i] \in LineTerm THEN FALSE
    ELSE IF (mode = "single" /\ s[i] = SQ) \/ (mode = "double" /\ s[i] = DQ)
    THEN WellFormedFrom(s, i + 1, "code", stack)
    ELSE WellFormedFrom(s, i + 1, mode, stack)

WellFormed(s) == WellFormedFrom(s, 1, "code", <<>>)

\* C5: sanitize leaves every well-formed text as it is.
SanitizeKeepsWellFormed ==
    (step # "idle" /\ step # "input" /\ WellFormed(src)) => out = src

\* C6: sanitize(sanitize(x)) = sanitize(x) for every text x.
SanitizeIdempotent == step \in {"resanitized", "detected"} => out2 = out

\* isActive ? 'on' : ''
\* }
TernaryExpected == Sub(TernarySample, 1, 19) \o <<SQ, LF, RBRACE>>

\* C7: sanitize turns the dangling quote of the ternary sample into one
\* empty string literal, and the detector accepts the result.
TernaryRepaired ==
    (step = "detected" /\ src = TernarySample)
        => out = TernaryExpected /\ ~verdict.out

\* the number of occurrences of c in s
Occurrences(s, c) == Len(SelectSeq(s, LAMBDA x : x = c))

\* the number of occurrences of c in s that no backslash precedes
RECURSIVE UnescapedUpTo(_, _, _)
UnescapedUpTo(s, c, n) ==
    IF n = 0 THEN 0
    ELSE UnescapedUpTo(s, c, n - 1)
            + (IF s[n] = c /\ (n = 1 \/ s[n - 1] # BSL) THEN 1 ELSE 0)

OddBackticks(s) == UnescapedUpTo(s, BT, Len(s)) % 2 = 1

BracketCountsDiffer(s) ==
    \E c \in Openers : Occurrences(s, c) # Occurrences(s, CloserOf(c))

\* C11: an odd number of unescaped backticks, or unequal counts of one of
\* the three bracket pairs, each alone makes isLikelyBroken true, whatever
\* the quotes of the text are.
ChecksForceVerdict ==
    step = "detected"
        => /\ (OddBackticks(src) \/ BracketCountsDiffer(src)) => verdict.src
           /\ (OddBackticks(out) \/ BracketCountsDiffer(out)) => verdict.out

\* a text with three { and two } whose only failing check is the bracket
\* count has been flagged
BracketsAloneFlagged ==
    /\ step = "detected"
    /\ Occurrences(src, LBRACE) = 3
    /\ Occurrences(src, RBRACE) = 2
    /\ ~OddBackticks(src)
    /\ ~QuotesOdd(src)
    /\ ~DanglingQuoteLine(src)
    /\ verdict.src

\* A scan from s[i] on, in `mode`, ends outside every literal: each quoted
\* literal is closed on its line and each template literal is closed.
RECURSIVE LiteralsClosedFrom(_, _, _)
LiteralsClosedFrom(s, i, mode) ==
    IF i > Len(s) THEN mode = "code"
    ELSE IF mode = "code"
    THEN LiteralsClosedFrom(s, i + 1,
            CASE s[i] = SQ -> "single" [] s[i] = DQ -> "double"
              [] s[i] = BT -> "template" [] OTHER -> "code")
    ELSE IF s[i] = BSL THEN i + 1 <= Len(s) /\ LiteralsClosedFrom(s, i + 2, mode)
    ELSE IF mode = "template"
    THEN LiteralsClosedFrom(s, i + 1, IF s[i] = BT THEN "code" ELSE mode)
    ELSE IF s[i] \in LineTerm THEN FALSE
    ELSE IF (mode = "single" /\ s[i] = SQ) \/ (mode = "double" /\ s[i] = DQ)
    THEN LiteralsClosedFrom(s, i + 1, "code")
    ELSE LiteralsClosedFrom(s, i + 1, mode)

\* C12 as stated: a text with an even number of backticks, every quoted
\* literal closed and equal counts for each bracket pair is not flagged.
BalancedTextAccepted ==
    (/\ step = "detected"
     /\ Occurrences(src, BT) % 2 = 0
     /\ LiteralsClosedFrom(src, 1, "code")
     /\ ~BracketCountsDiffer(src))
        => ~verdict.src

\* the number of backticks, escaped or not, before s[i]
BackticksBefore(s, i) == Occurrences(SubSeq(s, 1, i - 1), BT)

\* s[i] survives the removal of the regions that run from the 1st backtick
\* to the 2nd, from the 3rd to the 4th, and so on
OutsideBacktickPairs(s, i) ==
    IF s[i] = BT
    THEN BackticksBefore(s, i) % 2 = 0 /\ BackticksBefore(s, i) + 1 = Occurrences(s, BT)
    ELSE BackticksBefore(s, i) % 2 = 0 \/ BackticksBefore(s, i) = Occurrences(s, BT)

\* the text without those regions
TemplateFree(s) ==
    LET kept == SelectSeq([i \in 1..Len(s) |-> i], LAMBDA i : OutsideBacktickPairs(s, i))
    IN  [k \in 1..Len(kept) |-> s[kept[k]]]

OddQuotes(s) ==
    \E q \in Quote : UnescapedUpTo(TemplateFree(s), q, Len(TemplateFree(s))) % 2 = 1

\* a quote, then white space with a line feed in it, then } ) ] , or ;
QuoteBeforeCloser(s) ==
    \E i \in 1..Len(s), k \in 1..Len(s) :
        /\ i < k
        /\ s[i] \in Quote
        /\ s[k] \in {RBRACE, RPAREN, RBRACKET, COMMA, SEMI}
        /\ \A m \in (i + 1)..(k - 1) : s[m] \in Ws
        /\ \E m \in (i + 1)..(k - 1) : s[m] = LF

\* C12, amended: a text is not flagged when it has an even number of
\* unescaped backticks, even numbers of unescaped single and of unescaped
\* double quotes outside the regions between paired backticks, equal
\* counts for each bracket pair, and no line that ends in a quote while the
\* next non-blank line starts with } ) ] , or ;.
AllChecksPassAccepted ==
    step = "detected"
        => /\ (/\ ~OddBackticks(src)
               /\ ~OddQuotes(src)
               /\ ~QuoteBeforeCloser(src)
               /\ ~BracketCountsDiffer(src)) => ~verdict.src
           /\ (/\ ~OddBackticks(out)
               /\ ~OddQuotes(out)
               /\ ~QuoteBeforeCloser(out)
               /\ ~BracketCountsDiffer(out)) => ~verdict.out

\* a text with a closed quoted literal has been accepted
QuotedTextAccepted ==
    /\ step = "detected"
    /\ Len(src) = 3
    /\ src[1] = SQ
    /\ src[3] = SQ
    /\ ~verdict.src

\* the model calls of request r that were issued and have not yet returned
GenerationInFlight(r) ==
    calls[r].generate - (IF hist[r].generate = "none" THEN 0 ELSE 1) > 0

RepairInFlight(r) ==
    calls[r].repair - (IF hist[r].repair = "none" THEN 0 ELSE 1) > 0

\* C13: within one generation request the repair call is issued only after
\* the generation call has returned a text whose sanitized form is flagged,
\* the two calls are never in flight together, and the request makes at most
\* two model calls.
ModelCallsSequential ==
    \A r \in Reqs :
        route[r] = "generate"
            => /\ calls[r].generate + calls[r].repair <= 2
               /\ calls[r].repair >= 1
                    => /\ hist[r].generate = "ok"
                       /\ isLikelyBroken(hist[r].first)
               /\ ~(GenerationInFlight(r) /\ RepairInFlight(r))

\* a request is waiting for its repair call, the generation call having
\* returned
RepairCallInFlightAlone ==
    \E r \in Reqs :
        /\ route[r] = "generate"
        /\ RepairInFlight(r)
        /\ ~GenerationInFlight(r)
        /\ calls[r].generate = 1
        /\ hist[r].generate = "ok"

\* every quote of s, from s[i] on, belongs to an empty string literal '' or
\* "" in code; `found` says whether one was seen
RECURSIVE OnlyEmptyLiteralsFrom(_, _, _)
OnlyEmptyLiteralsFrom(s, i, found) ==
    IF i > Len(s) THEN found
    ELSE IF s[i] \in Quote
    THEN /\ i + 1 <= Len(s)
         /\ s[i + 1] = s[i]
         /\ OnlyEmptyLiteralsFrom(s, i + 2, TRUE)
    ELSE IF s[i] \in {BT, BSL} THEN FALSE
    ELSE OnlyEmptyLiteralsFrom(s, i + 1, found)

\* C14: sanitize keeps every empty string literal as it is: in a text
\* whose only quotes are those of empty string literals no quote is
\* removed and none is added.
EmptyLiteralsKept ==
    (/\ step \notin {"idle", "input"}
     /\ OnlyEmptyLiteralsFrom(src, 1, FALSE))
        => \A q \in Quote : Occurrences(out, q) = Occurrences(src, q)

\* s[i] lies inside a template literal: an odd number of unescaped
\* backticks precedes it
InsideTemplate(s, i) == UnescapedUpTo(s, BT, i - 1) % 2 = 1

\* the unescaped quotes q of s outside its template literals
QuotesOutsideTemplates(s, q) ==
    {i \in 1..Len(s) :
        /\ s[i] = q
        /\ (i = 1 \/ s[i - 1] # BSL)
        /\ ~InsideTemplate(s, i)}

\* C15: a text with an even number of unescaped backticks whose single and
\* double quotes outside template literals are each even in number passes
\* the quote-parity check, whatever its template literals hold.
TemplateQuotesIgnored ==
    (/\ step = "detected"
     /\ ~OddBackticks(src)
     /\ \A q \in Quote : Cardinality(QuotesOutsideTemplates(src, q)) % 2 = 0)
        => ~QuotesOdd(src)

\* the characters below the space that rule 5 leaves out of its class
KeptWhitespace == {TAB, LF, CR}

WhitespaceOf(s) == SelectSeq(s, LAMBDA c : c \in KeptWhitespace)

NoControl(s) == \A i \in 1..Len(s) : s[i] \notin Control

\* C16 as stated: for every input the output holds no control character,
\* and the tabs, line feeds and carriage returns of the input are kept.
ControlStrippedWhitespaceKept ==
    step \notin {"idle", "input"}
        => /\ NoControl(out)
           /\ WhitespaceOf(out) = WhitespaceOf(src)

\* C16, amended: for every input the output holds no control character,
\* and the strip of control characters removes no tab, line feed or
\* carriage return: those of the text it is applied to are all in the
\* output, in their order.
ControlStrippedOnly ==
    step \notin {"idle", "input"}
        => /\ NoControl(out)
           /\ WhitespaceOf(out) = WhitespaceOf(BeforeStrip(src))

\* a text with a control character, a tab, a carriage return and a line
\* feed has been sanitized, and the three are in the output
ControlDroppedWhitespaceLeft ==
    /\ step = "sanitized"
    /\ ~NoControl(src)
    /\ WhitespaceOf(out) = <<TAB, CR, LF>>

\* C18: sanitize never makes the verdict of the detector worse: a text that
\* isLikelyBroken accepts is still accepted after sanitizing.
SanitizeKeepsAccepted ==
    (step = "detected" /\ ~verdict.src) => ~verdict.out

\* the loop over the lines rewrites a line of src whose next non-blank line
\* starts with } ) ] , or ;
ScanRewritesBeforeCloser(s) ==
    LET lines == SplitLines(BeforeLineScan(s))
    IN  \E i \in 1..Len(lines) :
            /\ EndsInQuote(lines[i])
            /\ NextStart(lines, i) \in {RBRACE, RPAREN, RBRACKET, COMMA, SEMI}

AutoStartSendsOwnImage ==
    \A q \in fetches :
        q.auto => /\ q.imageUrl = q.image.url
                  /\ q.imageDescription = q.image.description

\* C20: whenever a call of createApp fails (the fetch rejects, the response
\* is not ok or has no body), the status later leaves 'creating' for one in
\* which the Generate button is enabled.
GenerationFailureRecovers == failed ~> ~GenerateDisabled

\* the first n chunks of the body of the response to request id
BodyPrefix(id, n) == [k \in 1..n |-> <<id, k>>]

\* C21: under every interleaving of uploads, timers, clicks on Generate,
\* clicks on the remove-image button and selections of the sample image, at
\* most one generation request is in flight, and generatedCode is a prefix
\* of the body of a single response.
OneGenerationInFlight ==
    /\ Cardinality(fetches) <= 1
    /\ \E id \in 1..(MaxImages + MaxClicks), n \in 0..ChunksPerBody :
            generatedCode = BodyPrefix(id, n)

====
